---- MODULE Spec2Model ----
(***************************************************************************)
(* DocDB core (packages/core/src/database.ts, query.ts): the Database      *)
(* class over its primary Level store, one Level posting store per index,  *)
(* and the meta.json artifact.                                             *)
(*                                                                         *)
(* Strings are sequences of character codes (ASCII), so that the stores'   *)
(* key order and String.prototype.startsWith can be computed.  JSON values *)
(* are tagged: [t |-> "str", v |-> <<97>>] is "a", [t |-> "num", v |-> 3]  *)
(* is 3.  A document is a function from the fields it has to JSON values.  *)
(***************************************************************************)
EXTENDS Integers, Sequences, FiniteSets, TLC

VARIABLES
    status,     \* "new" (constructed), "open", "closed": the primary store handle
    db,         \* primary store: encoded key -> document
    idx,        \* posting stores: index name -> (index key -> list of primary keys)
    meta,       \* this.meta.indexes, in property (insertion) order
    metaFile,   \* contents of meta.json, NoFile before the first write
    txn,        \* TRUE while a transaction callback is running
    txnN,       \* inserts made by the running callback
    txnW,       \* history: key -> document last written by the running callback
    snap,       \* history: posting stores and metadata when the callback started
    lastDoc,    \* history: key -> the document of the last insert call for that key,
                \* and whether that call replaced a different document
    nCalls,     \* insert and createIndex calls made so far
    out         \* the last call and what it returned

vars == <<status, db, idx, meta, metaFile, txn, txnN, txnW, snap, lastDoc, nCalls, out>>

-----------------------------------------------------------------------------
(* Bounds of the model *)

\* inserts one transaction callback makes at most
MaxTxnLen == 2
\* insert, createIndex and in-transaction insert calls made in one run
MaxCalls == 4
\* the number of properties of a query given to match
MaxQueryKeys == 2

\* the primary keys callers use: numbers, as in the tests and the README
Keys == {2, 10}

IndexNames == {"ix1", "ix2"}
Fields == {"title", "type"}

Str(s) == [t |-> "str", v |-> s]
Num(n) == [t |-> "num", v |-> n]
Undefined == [t |-> "undef"]

\* "a", "ab"
TitleValues == {Str(<<97>>), Str(<<97, 98>>)}
\* "a"
TypeValues == {Str(<<97>>)}

\* documents over `fields`: every non-empty choice of them, each field with one
\* of the values vals[f]
DocsOver(fields, vals) ==
    UNION {{d \in [F -> UNION {vals[f] : f \in F}] : \A f \in F : d[f] \in vals[f]} :
             F \in (SUBSET fields) \ {{}}}

Docs == DocsOver(Fields, [f \in Fields |-> IF f = "title" THEN TitleValues ELSE TypeValues])

\* the createIndex calls of the model: two names, one of them created on either
\* field, and one call whose type is neither "text" nor "number"
IndexOptions ==
    {[name |-> "ix1", field |-> "title", type |-> "text"],
     [name |-> "ix1", field |-> "type", type |-> "number"],
     [name |-> "ix2", field |-> "title", type |-> "bogus"],
     [name |-> "ix2", field |-> "type", type |-> "text"]}

NoFile == "NoFile"
NoOut == [op |-> "none"]
NoSnap == [idx |-> "none", meta |-> "none", metaFile |-> "none"]

-----------------------------------------------------------------------------
(* Strings, the stores' key order and their key encoding *)

\* String.prototype.startsWith
StartsWith(s, p) == Len(p) <= Len(s) /\ SubSeq(s, 1, Len(p)) = p

\* the byte order of a Level store's keys
LexLess(s, t) ==
    \/ Len(s) < Len(t) /\ SubSeq(t, 1, Len(s)) = s
    \/ \E i \in 1..Len(s) :
         /\ i <= Len(t)
         /\ s[i] < t[i]
         /\ SubSeq(s, 1, i - 1) = SubSeq(t, 1, i - 1)

\* the keys of a store in the order its iterator yields them
RECURSIVE SortKeys(_)
SortKeys(S) ==
    IF S = {} THEN <<>>
    ELSE LET m == CHOOSE x \in S : \A y \in S \ {x} : LexLess(x, y)
         IN <<m>> \o SortKeys(S \ {m})

\* String(n) for a non-negative integer: its decimal digits
RECURSIVE Digits(_)
Digits(n) == IF n < 10 THEN <<48 + n>> ELSE Digits(n \div 10) \o <<48 + (n % 10)>>

\* the primary store has Level's default utf8 key encoding: a key is stored,
\* and iterated, as String(key)
KeyEnc(k) == Digits(k)

\* a posting store has the utf8 key encoding too: a field value is stored as
\* String(value)
IndexKeyEnc(v) == IF v.t = "num" THEN Digits(v.v) ELSE v.v

\* Level put: upsert
Put(store, k, v) == [x \in DOMAIN store \cup {k} |-> IF x = k THEN v ELSE store[x]]

\* a membership test that never finds the key
IncludesNever(list, key) == FALSE

\* a membership test that looks at the last element only
IncludesLast(list, key) == list # <<>> /\ list[Len(list)] = key

\* Array.prototype.includes
Includes(list, key) == \E i \in 1..Len(list) : list[i] = key

EmptyStore == [x \in {} |-> <<>>]

\* a history variable's update (not part of the program)
Remember(h, k, v) == [x \in DOMAIN h \cup {k} |-> IF x = k THEN v ELSE h[x]]

\* the history of insert calls after insert(k, d)
Inserted(h, k, d) ==
    Remember(h, k, [doc |-> d, over |-> k \in DOMAIN h /\ h[k].doc # d])

\* membership in a list, for the properties
InList(list, x) == \E i \in 1..Len(list) : list[i] = x

-----------------------------------------------------------------------------
(* insert's write and createIndex *)

\* a put that keeps the document a key already has
DbPutIfAbsent(dbv, k, d) == IF KeyEnc(k) \in DOMAIN dbv THEN dbv ELSE Put(dbv, KeyEnc(k), d)

\* await this.db.put(key, document)
DbPut(dbv, k, d) == Put(dbv, KeyEnc(k), d)

\* the scan of createIndex over the primary store, from the documents `keys` on.
\* A document without the field has indexKey undefined: Level rejects an
\* undefined key, so indexDB.get fails and is caught (indexValue = []), and
\* indexDB.put fails and is not: the call ends there with the failure (ok FALSE).
RECURSIVE BuildFrom(_, _, _, _)

\* a scan that puts a new key at the head of its posting list
RECURSIVE BuildPrepend(_, _, _, _)
BuildPrepend(dbv, store, keys, field) ==
    IF keys = <<>> THEN [store |-> store, ok |-> TRUE]
    ELSE LET key == Head(keys)
             value == dbv[key]
         IN IF field \notin DOMAIN value
            THEN [store |-> store, ok |-> FALSE]
            ELSE LET indexKey == IndexKeyEnc(value[field])
                     indexValue == IF indexKey \in DOMAIN store
                                   THEN store[indexKey] ELSE <<>>
                 IN IF Includes(indexValue, key)
                    THEN BuildPrepend(dbv, store, Tail(keys), field)
                    ELSE BuildPrepend(dbv, Put(store, indexKey, <<key>> \o indexValue),
                                      Tail(keys), field)

BuildFrom(dbv, store, keys, field) ==
    IF keys = <<>> THEN [store |-> store, ok |-> TRUE]
    ELSE LET key == Head(keys)
             value == dbv[key]
         IN IF field \notin DOMAIN value
            THEN [store |-> store, ok |-> FALSE]
            ELSE LET indexKey == IndexKeyEnc(value[field])
                     indexValue == IF indexKey \in DOMAIN store
                                   THEN store[indexKey] ELSE <<>>
                 IN IF Includes(indexValue, key)
                    THEN BuildFrom(dbv, store, Tail(keys), field)
                    ELSE BuildFrom(dbv, Put(store, indexKey, Append(indexValue, key)),
                                   Tail(keys), field)

\* this.meta.indexes[name] = {field, type}: an existing property keeps its place
MetaPut(m, name, field, type) ==
    IF \E i \in 1..Len(m) : m[i].name = name
    THEN [i \in 1..Len(m) |->
            IF m[i].name = name THEN [name |-> name, field |-> field, type |-> type]
            ELSE m[i]]
    ELSE Append(m, [name |-> name, field |-> field, type |-> type])

\* a createIndex that records the definition in memory and does not write
\* meta.json
CreateIndexNoFlush(s, name, field, type) ==
    LET b == IF type \in {"number", "text"}
             THEN BuildFrom(s.db, s.idx[name], SortKeys(DOMAIN s.db), field)
             ELSE [store |-> s.idx[name], ok |-> TRUE]
    IN IF b.ok
       THEN [s EXCEPT !.idx[name] = b.store,
                      !.meta = MetaPut(s.meta, name, field, type),
                      !.ok = TRUE]
       ELSE [s EXCEPT !.idx[name] = b.store, !.ok = FALSE]

\* one createIndex call on the stores s = [db, idx, meta, metaFile, ok].  The
\* switch has no default: a type that is neither "number" nor "text" scans
\* nothing and is recorded all the same.  A failing scan leaves the postings it
\* has put and records nothing; the handle it leaves open is taken to be
\* finalized before the store is opened again.
CreateIndexOn(s, name, field, type) ==
    LET b == IF type \in {"number", "text"}
             THEN BuildFrom(s.db, s.idx[name], SortKeys(DOMAIN s.db), field)
             ELSE [store |-> s.idx[name], ok |-> TRUE]
    IN IF b.ok
       THEN [s EXCEPT !.idx[name] = b.store,
                      !.meta = MetaPut(s.meta, name, field, type),
                      !.metaFile = MetaPut(s.meta, name, field, type),
                      !.ok = TRUE]
       ELSE [s EXCEPT !.idx[name] = b.store, !.ok = FALSE]

MetaNames(m) == [i \in 1..Len(m) |-> m[i].name]

\* for (const name in this.meta.indexes) await this.createIndex({name, ...}),
\* from the i-th property on; the first failing call ends the loop
RECURSIVE RebuildAll(_, _, _)
RebuildAll(s, names, i) ==
    IF i > Len(names) THEN s
    ELSE LET def == CHOOSE e \in {s.meta[j] : j \in 1..Len(s.meta)} : e.name = names[i]
             r == CreateIndexOn(s, def.name, def.field, def.type)
         IN IF r.ok THEN RebuildAll(r, names, i + 1) ELSE r

Stores == [db |-> db, idx |-> idx, meta |-> meta, metaFile |-> metaFile, ok |-> TRUE]

-----------------------------------------------------------------------------
(* The operations *)

Init ==
    /\ status = "new"
    /\ db = EmptyStore
    /\ idx = [n \in IndexNames |-> EmptyStore]
    /\ meta = <<>>
    /\ metaFile = NoFile
    /\ txn = FALSE
    /\ txnN = 0
    /\ txnW = EmptyStore
    /\ snap = NoSnap
    /\ lastDoc = EmptyStore
    /\ nCalls = 0
    /\ out = NoOut

NoTxnHistory == txnN' = 0 /\ txnW' = EmptyStore /\ snap' = NoSnap

Open ==
    /\ status \in {"new", "closed"}
    /\ status' = "open"
    /\ metaFile' = meta
    /\ out' = [op |-> "open"]
    /\ NoTxnHistory
    /\ UNCHANGED <<db, idx, meta, txn, lastDoc, nCalls>>

Close ==
    /\ status = "open"
    /\ ~txn
    /\ status' = "closed"
    /\ metaFile' = meta
    /\ out' = [op |-> "close"]
    /\ NoTxnHistory
    /\ UNCHANGED <<db, idx, meta, txn, lastDoc, nCalls>>

Insert(k, d) ==
    /\ status = "open"
    /\ ~txn
    /\ nCalls < MaxCalls
    /\ LET r == RebuildAll([Stores EXCEPT !.db = DbPut(db, k, d)], MetaNames(meta), 1)
       IN /\ db' = r.db
          /\ idx' = r.idx
          /\ meta' = r.meta
          /\ metaFile' = r.metaFile
          /\ out' = [op |-> "insert", key |-> k, doc |-> d, ok |-> r.ok,
                     again |-> k \in DOMAIN lastDoc]
    /\ lastDoc' = Inserted(lastDoc, k, d)
    /\ nCalls' = nCalls + 1
    /\ NoTxnHistory
    /\ UNCHANGED <<status, txn>>

CreateIndex(name, field, type) ==
    /\ status = "open"
    /\ ~txn
    /\ nCalls < MaxCalls
    /\ LET r == CreateIndexOn(Stores, name, field, type)
       IN /\ idx' = r.idx
          /\ meta' = r.meta
          /\ metaFile' = r.metaFile
          /\ out' = [op |-> "createIndex", name |-> name, field |-> field,
                     type |-> type, ok |-> r.ok,
                     again |-> /\ out.op = "createIndex"
                               /\ out.name = name
                               /\ out.field = field
                               /\ out.type = type]
    /\ nCalls' = nCalls + 1
    /\ NoTxnHistory
    /\ UNCHANGED <<status, db, txn, lastDoc>>

\* transaction(callback) up to the call of the callback
TxnBegin ==
    /\ status = "open"
    /\ ~txn
    /\ txn' = TRUE
    /\ txnN' = 0
    /\ txnW' = EmptyStore
    /\ snap' = [idx |-> idx, meta |-> meta, metaFile |-> metaFile]
    /\ out' = [op |-> "txnBegin"]
    /\ UNCHANGED <<status, db, idx, meta, metaFile, lastDoc, nCalls>>

\* an in-transaction insert that is the database's own insert: it rebuilds
\* the indexes
TxnInsertRebuilds(k, d) ==
    /\ txn
    /\ txnN < MaxTxnLen
    /\ nCalls < MaxCalls
    /\ LET r == RebuildAll([Stores EXCEPT !.db = DbPut(db, k, d)], MetaNames(meta), 1)
       IN /\ db' = r.db
          /\ idx' = r.idx
          /\ meta' = r.meta
          /\ metaFile' = r.metaFile
    /\ txnN' = txnN + 1
    /\ txnW' = Remember(txnW, k, d)
    /\ lastDoc' = Inserted(lastDoc, k, d)
    /\ nCalls' = nCalls + 1
    /\ out' = [op |-> "txnInsert", key |-> k, doc |-> d]
    /\ UNCHANGED <<status, txn, snap>>

\* _this.insert, called by the callback
TxnInsert(k, d) ==
    /\ txn
    /\ txnN < MaxTxnLen
    /\ nCalls < MaxCalls
    /\ db' = DbPut(db, k, d)
    /\ txnN' = txnN + 1
    /\ txnW' = Remember(txnW, k, d)
    /\ lastDoc' = Inserted(lastDoc, k, d)
    /\ nCalls' = nCalls + 1
    /\ out' = [op |-> "txnInsert", key |-> k, doc |-> d]
    /\ UNCHANGED <<status, idx, meta, metaFile, txn, snap>>

\* a transaction whose rebuild is in a finally block
TxnFailRebuilds ==
    /\ txn
    /\ txn' = FALSE
    /\ LET r == RebuildAll(Stores, MetaNames(meta), 1)
       IN /\ idx' = r.idx
          /\ meta' = r.meta
          /\ metaFile' = r.metaFile
    /\ out' = [op |-> "transaction", ok |-> FALSE, body |-> FALSE]
    /\ UNCHANGED <<status, db, txnN, txnW, snap, lastDoc, nCalls>>

\* the callback rejects: await callback(_this) throws out of transaction
TxnFail ==
    /\ txn
    /\ txn' = FALSE
    /\ out' = [op |-> "transaction", ok |-> FALSE, body |-> FALSE]
    /\ UNCHANGED <<status, db, idx, meta, metaFile, txnN, txnW, snap, lastDoc, nCalls>>

\* the callback resolves: every index in the metadata is rebuilt
TxnCommit ==
    /\ txn
    /\ txn' = FALSE
    /\ LET r == RebuildAll(Stores, MetaNames(meta), 1)
       IN /\ idx' = r.idx
          /\ meta' = r.meta
          /\ metaFile' = r.metaFile
          /\ out' = [op |-> "transaction", ok |-> r.ok, body |-> TRUE]
    /\ UNCHANGED <<status, db, txnN, txnW, snap, lastDoc, nCalls>>

\* a get that resolves with undefined for a key the store does not have
GetMissUndefined(k) ==
    /\ status = "open"
    /\ out' = IF KeyEnc(k) \in DOMAIN db
              THEN [op |-> "get", key |-> k, ok |-> TRUE, val |-> db[KeyEnc(k)]]
              ELSE [op |-> "get", key |-> k, ok |-> TRUE, val |-> Undefined]
    /\ UNCHANGED <<status, db, idx, meta, metaFile, txn, txnN, txnW, snap, lastDoc, nCalls>>

\* return await this.db.get(key): NotFound is not caught
Get(k) ==
    /\ status = "open"
    /\ out' = IF KeyEnc(k) \in DOMAIN db
              THEN [op |-> "get", key |-> k, ok |-> TRUE, val |-> db[KeyEnc(k)]]
              ELSE [op |-> "get", key |-> k, ok |-> FALSE]
    /\ UNCHANGED <<status, db, idx, meta, metaFile, txn, txnN, txnW, snap, lastDoc, nCalls>>

-----------------------------------------------------------------------------
(* search *)

\* a lookup whose miss is not caught
PostingGetThrows(store, key) ==
    IF key \in DOMAIN store THEN [ok |-> TRUE, val |-> store[key]]
    ELSE [ok |-> FALSE, val |-> <<>>]

\* try { keys = await indexDB.get($eq) } catch { keys = [] }
PostingGet(store, key) ==
    IF key \in DOMAIN store THEN [ok |-> TRUE, val |-> store[key]]
    ELSE [ok |-> TRUE, val |-> <<>>]

\* an iterator that is not positioned: it starts at the store's first key
SeekFromStart(store, p) == SortKeys(DOMAIN store)

\* it.seek(p): the iterator yields the keys at or after p, in order
SeekFrom(store, p) == SelectSeq(SortKeys(DOMAIN store), LAMBDA k : ~LexLess(k, p))

\* for await (const [key, value] of it): concat while the key starts with p,
\* break at the first key that does not
RECURSIVE ScanPrefix(_, _, _, _)
ScanPrefix(store, ks, p, keys) ==
    IF ks = <<>> THEN keys
    ELSE IF StartsWith(Head(ks), p)
         THEN ScanPrefix(store, Tail(ks), p, keys \o store[Head(ks)])
         ELSE keys

\* this.db.getMany(keys): undefined for a key the store does not have
GetMany(dbv, keys) ==
    [i \in 1..Len(keys) |-> IF keys[i] \in DOMAIN dbv THEN dbv[keys[i]] ELSE Undefined]

\* a search whose prefix scan starts from an empty key list, dropping the $eq
\* posting list
SearchRunScanReplaces(dbv, store, q) ==
    LET e == IF q.eq.t # "undef" THEN PostingGet(store, IndexKeyEnc(q.eq))
             ELSE [ok |-> TRUE, val |-> <<>>]
        keys == IF q.sw.t # "undef"
                THEN ScanPrefix(store, SeekFrom(store, q.sw.v), q.sw.v, <<>>)
                ELSE e.val
    IN IF ~e.ok THEN [ok |-> FALSE, val |-> <<>>]
       ELSE [ok |-> TRUE, val |-> IF Len(keys) > 0 THEN GetMany(dbv, keys) ELSE <<>>]

\* search({index: name, query: q}), q = [eq |-> $eq, sw |-> $startsWith], each a
\* string or Undefined
SearchRun(dbv, store, q) ==
    LET e == IF q.eq.t # "undef" THEN PostingGet(store, IndexKeyEnc(q.eq))
             ELSE [ok |-> TRUE, val |-> <<>>]
        keys == IF q.sw.t # "undef"
                THEN ScanPrefix(store, SeekFrom(store, q.sw.v), q.sw.v, e.val)
                ELSE e.val
    IN IF ~e.ok THEN [ok |-> FALSE, val |-> <<>>]
       ELSE [ok |-> TRUE, val |-> IF Len(keys) > 0 THEN GetMany(dbv, keys) ELSE <<>>]

\* a search that stores an empty posting list under a $eq value it missed
SearchStoresMiss(name, q) ==
    /\ status = "open"
    /\ LET r == SearchRun(db, idx[name], q)
       IN out' = [op |-> "search", index |-> name, query |-> q, ok |-> r.ok, val |-> r.val]
    /\ idx' = IF q.eq.t # "undef" /\ IndexKeyEnc(q.eq) \notin DOMAIN idx[name]
              THEN [idx EXCEPT ![name] = Put(idx[name], IndexKeyEnc(q.eq), <<>>)]
              ELSE idx
    /\ UNCHANGED <<status, db, meta, metaFile, txn, txnN, txnW, snap, lastDoc, nCalls>>

Search(name, q) ==
    /\ status = "open"
    /\ LET r == SearchRun(db, idx[name], q)
       IN out' = [op |-> "search", index |-> name, query |-> q, ok |-> r.ok, val |-> r.val]
    /\ UNCHANGED <<status, db, idx, meta, metaFile, txn, txnN, txnW, snap, lastDoc, nCalls>>

-----------------------------------------------------------------------------
(* match and find (query.ts) *)

\* a query is the sequence of its properties, in property order, each
\* [key, val] with val an operator object Item(ops) or an array Arr(qs);
\* an operator object is the sequence of its [op, arg] properties
Item(ops) == [kind |-> "item", ops |-> ops]
Arr(qs) == [kind |-> "array", qs |-> qs]

\* ===
StrictEq(a, b) == a.t = b.t /\ (a.t = "undef" \/ a.v = b.v)

\* the value of a string of decimal digits
RECURSIVE DigitsValue(_)
DigitsValue(s) ==
    IF s = <<>> THEN 0 ELSE 10 * DigitsValue(SubSeq(s, 1, Len(s) - 1)) + (s[Len(s)] - 48)

\* ToNumber on the values of the model: a number, the empty string (0), a string
\* of decimal digits; NaN for any other string and for undefined
ToNumber(a) ==
    IF a.t = "num" THEN [nan |-> FALSE, v |-> a.v]
    ELSE IF a.t = "str" /\ \A i \in 1..Len(a.v) : a.v[i] \in 48..57
         THEN [nan |-> FALSE, v |-> DigitsValue(a.v)]
         ELSE [nan |-> TRUE, v |-> 0]

\* a > b: two strings compare by code units, anything else as numbers
JsGt(a, b) ==
    IF a.t = "str" /\ b.t = "str" THEN LexLess(b.v, a.v)
    ELSE /\ ~ToNumber(a).nan
         /\ ~ToNumber(b).nan
         /\ ToNumber(a).v > ToNumber(b).v

\* what item.$gt || 0 replaces by 0
Falsy(a) == a.t = "undef" \/ (a.t = "num" /\ a.v = 0) \/ (a.t = "str" /\ a.v = <<>>)

\* evaluate(item, value), from the i-th property of item on
RECURSIVE EvaluateFrom(_, _, _)
EvaluateFrom(ops, i, value) ==
    IF i > Len(ops) THEN FALSE
    ELSE IF ops[i].op = "$eq" THEN StrictEq(value, ops[i].arg)
    ELSE IF ops[i].op = "$neq" THEN ~StrictEq(value, ops[i].arg)
    ELSE IF ops[i].op = "$gt"
         THEN JsGt(value, IF Falsy(ops[i].arg) THEN Num(0) ELSE ops[i].arg)
    ELSE EvaluateFrom(ops, i + 1, value)

Evaluate(item, value) == EvaluateFrom(item.ops, 1, value)

\* match(query, document) from the i-th property of query on, and
\* value.some(q => match(q, document)) from the j-th sub-query on:
\* "true", "false", or "throw" when an Error is thrown
RECURSIVE MatchFrom(_, _, _)
RECURSIVE SomeFrom(_, _, _)

\* a match in which a field the document lacks fails the predicate
RECURSIVE MatchAbsentFails(_, _, _)
MatchAbsentFails(q, i, d) ==
    IF i > Len(q) THEN "true"
    ELSE IF q[i].key = "$or"
         THEN IF q[i].val.kind # "array" THEN "throw" ELSE SomeFrom(q[i].val.qs, 1, d)
    ELSE IF q[i].val.kind = "array" THEN "throw"
    ELSE IF q[i].key \notin DOMAIN d \/ ~Evaluate(q[i].val, d[q[i].key]) THEN "false"
    ELSE MatchAbsentFails(q, i + 1, d)

\* a match that goes on to the keys after $or when the $or has matched
RECURSIVE MatchOrContinues(_, _, _)
MatchOrContinues(q, i, d) ==
    IF i > Len(q) THEN "true"
    ELSE IF q[i].key = "$or"
         THEN IF q[i].val.kind # "array" THEN "throw"
              ELSE LET r == SomeFrom(q[i].val.qs, 1, d)
                   IN IF r = "true" THEN MatchOrContinues(q, i + 1, d) ELSE r
    ELSE IF q[i].val.kind = "array" THEN "throw"
    ELSE IF q[i].key \in DOMAIN d /\ ~Evaluate(q[i].val, d[q[i].key]) THEN "false"
    ELSE MatchOrContinues(q, i + 1, d)

MatchFrom(q, i, d) ==
    IF i > Len(q) THEN "true"
    ELSE IF q[i].key = "$or"
         THEN IF q[i].val.kind # "array" THEN "throw" ELSE SomeFrom(q[i].val.qs, 1, d)
    ELSE IF q[i].val.kind = "array" THEN "throw"
    ELSE IF q[i].key \in DOMAIN d /\ ~Evaluate(q[i].val, d[q[i].key]) THEN "false"
    ELSE MatchFrom(q, i + 1, d)

SomeFrom(qs, j, d) ==
    IF j > Len(qs) THEN "false"
    ELSE LET r == MatchFrom(qs[j], 1, d)
         IN IF r = "false" THEN SomeFrom(qs, j + 1, d) ELSE r

Match(q, d) == MatchFrom(q, 1, d)

\* a filter that yields every document
FilterAll(dbv, keys, q, acc) ==
    [ok |-> TRUE, val |-> acc \o [i \in 1..Len(keys) |-> <<keys[i], dbv[keys[i]]>>]]

\* filter(({value}) => match(query, value)), consumed to its end: the pairs
\* yielded, and ok FALSE when match threw
RECURSIVE FilterFrom(_, _, _, _)
FilterFrom(dbv, keys, q, acc) ==
    IF keys = <<>> THEN [ok |-> TRUE, val |-> acc]
    ELSE LET r == Match(q, dbv[Head(keys)])
         IN IF r = "throw" THEN [ok |-> FALSE, val |-> acc]
            ELSE FilterFrom(dbv, Tail(keys), q,
                            IF r = "true"
                            THEN Append(acc, <<Head(keys), dbv[Head(keys)]>>)
                            ELSE acc)

Find(q) ==
    /\ status = "open"
    /\ LET r == FilterFrom(db, SortKeys(DOMAIN db), q, <<>>)
       IN out' = [op |-> "find", query |-> q, ok |-> r.ok, val |-> r.val]
    /\ UNCHANGED <<status, db, idx, meta, metaFile, txn, txnN, txnW, snap, lastDoc, nCalls>>

\* a call of match(query, document) by a user of query.ts
MatchCall(q, d) ==
    /\ out' = [op |-> "match", query |-> q, doc |-> d, res |-> Match(q, d)]
    /\ UNCHANGED <<status, db, idx, meta, metaFile, txn, txnN, txnW, snap, lastDoc, nCalls>>

-----------------------------------------------------------------------------
(* The specifications *)

\* the calls that write, with callers that serialize them: a transaction's
\* callback is the only writer while it runs
Writes ==
    \/ Open
    \/ \E k \in Keys, d \in Docs : Insert(k, d)
    \/ \E o \in IndexOptions : CreateIndex(o.name, o.field, o.type)
    \/ TxnBegin
    \/ \E k \in Keys, d \in Docs : TxnInsert(k, d)
    \/ TxnFail
    \/ TxnCommit

Next == Writes

Spec == Init /\ [][Next]_vars

NextGet ==
    \/ Writes
    \/ \E k \in Keys : Get(k)

SpecGet == Init /\ [][NextGet]_vars

\* the calls that write, with close and open again
NextClose ==
    \/ Writes
    \/ Close

SpecClose == Init /\ [][NextClose]_vars

\* "aa", "ab", "b"
SearchValues == {Str(<<97, 97>>), Str(<<97, 98>>), Str(<<98>>)}
SearchDocs == DocsOver({"title"}, [f \in {"title"} |-> SearchValues])
\* "aa", "b", and "a", which no document has
EqTerms == {Str(<<97, 97>>), Str(<<98>>), Str(<<97>>)}
\* "", "a", "ab", and "c", which no document starts with
PrefixTerms == {Str(<<>>), Str(<<97>>), Str(<<97, 98>>), Str(<<99>>)}
SearchQueries ==
    {[eq |-> e, sw |-> s] : e \in EqTerms \cup {Undefined}, s \in PrefixTerms \cup {Undefined}}

\* inserts, one text index on title, and searches of it and of an index name
\* that was never created
NextSearch ==
    \/ Open
    \/ \E k \in Keys, d \in SearchDocs : Insert(k, d)
    \/ CreateIndex("ix1", "title", "text")
    \/ \E n \in IndexNames, q \in SearchQueries : Search(n, q)

SpecSearch == Init /\ [][NextSearch]_vars

\* {$or: [{title: {$eq: "a"}}, {title: {$eq: "ab"}}]}
QueryOr ==
    <<[key |-> "$or",
       val |-> Arr(<<<<[key |-> "title", val |-> Item(<<[op |-> "$eq", arg |-> Str(<<97>>)]>>)]>>,
                     <<[key |-> "title", val |-> Item(<<[op |-> "$eq", arg |-> Str(<<97, 98>>)]>>)]>>>>)]>>
\* {}
QueryAll == <<>>
\* {type: {$eq: "a"}}
QueryType == <<[key |-> "type", val |-> Item(<<[op |-> "$eq", arg |-> Str(<<97>>)]>>)]>>
\* {title: {$neq: "a"}}
QueryNotA == <<[key |-> "title", val |-> Item(<<[op |-> "$neq", arg |-> Str(<<97>>)]>>)]>>
\* {title: {$eq: "a"}, $or: {}}: the value of $or is not an array
QueryBadOr ==
    <<[key |-> "title", val |-> Item(<<[op |-> "$eq", arg |-> Str(<<97>>)]>>)],
      [key |-> "$or", val |-> Item(<<>>)]>>
FindQueries == {QueryOr, QueryAll, QueryType, QueryNotA, QueryBadOr}

\* the keys of the find runs: 1, 2 and 10
FindKeys == Keys \cup {1}
\* their documents: title "a", "ab" or "b", type "a"
FindDocs ==
    DocsOver(Fields, [f \in Fields |-> IF f = "title" THEN TitleValues \cup {Str(<<98>>)}
                                       ELSE TypeValues])

\* inserts and finds
NextFind ==
    \/ Open
    \/ \E k \in FindKeys, d \in FindDocs : Insert(k, d)
    \/ \E q \in FindQueries : Find(q)

SpecFind == Init /\ [][NextFind]_vars

\* documents with a title, "a" or "ab"
ReadDocs == DocsOver({"title"}, [f \in {"title"} |-> TitleValues])
\* {$eq: "a"}, {$eq: "ab"}, {$startsWith: "a"}
ReadQueries ==
    {[eq |-> Str(<<97>>), sw |-> Undefined],
     [eq |-> Str(<<97, 98>>), sw |-> Undefined],
     [eq |-> Undefined, sw |-> Str(<<97>>)]}

\* inserts, transactions and one text index on title, with readers whose get,
\* search and find calls run between any two of the writers' steps, a
\* transaction callback's included
NextRead ==
    \/ Open
    \/ \E k \in Keys, d \in ReadDocs : Insert(k, d)
    \/ CreateIndex("ix1", "title", "text")
    \/ TxnBegin
    \/ \E k \in Keys, d \in ReadDocs : TxnInsert(k, d)
    \/ TxnFail
    \/ TxnCommit
    \/ \E k \in Keys : Get(k)
    \/ \E n \in IndexNames, q \in ReadQueries : Search(n, q)
    \/ \E q \in {QueryAll, QueryNotA, QueryBadOr} : Find(q)

SpecRead == Init /\ [][NextRead]_vars

\* the values of a field key in the match runs: {$eq: "a"}, {$neq: "a"}, and
\* an array, which is not an operator object
FieldPredicates ==
    {Item(<<[op |-> "$eq", arg |-> Str(<<97>>)]>>),
     Item(<<[op |-> "$neq", arg |-> Str(<<97>>)]>>),
     Arr(<<>>)}
\* the sub-queries of a $or: {title: {$eq: "a"}}, {title: {$eq: "ab"}},
\* {type: {$eq: "a"}}
SubQueries ==
    {<<[key |-> "title", val |-> Item(<<[op |-> "$eq", arg |-> Str(<<97>>)]>>)]>>,
     <<[key |-> "title", val |-> Item(<<[op |-> "$eq", arg |-> Str(<<97, 98>>)]>>)]>>,
     <<[key |-> "type", val |-> Item(<<[op |-> "$eq", arg |-> Str(<<97>>)]>>)]>>}
\* the values of a $or key: arrays of no, one and two sub-queries, and an object
OrValues ==
    {Arr(<<>>), Item(<<>>)}
        \cup {Arr(<<a>>) : a \in SubQueries}
        \cup {Arr(<<a, b>>) : a \in SubQueries, b \in SubQueries}
QueryEntries ==
    {[key |-> k, val |-> v] : k \in Fields, v \in FieldPredicates}
        \cup {[key |-> "$or", val |-> v] : v \in OrValues}
\* the query objects of the match runs: up to MaxQueryKeys properties with
\* different keys, in every property order
MatchQueries ==
    UNION {{q \in [1..n -> QueryEntries] : \A i, j \in 1..n : i # j => q[i].key # q[j].key} :
             n \in 0..MaxQueryKeys}

\* one call of match on a query and a document of the above: match keeps no
\* state from one call to the next
NextMatch == out = NoOut /\ \E q \in MatchQueries, d \in FindDocs : MatchCall(q, d)

SpecMatch == Init /\ [][NextMatch]_vars

-----------------------------------------------------------------------------
(* The claims *)

\* key is in the posting list of index `name` under index key v
Posted(name, v, key) == v \in DOMAIN idx[name] /\ InList(idx[name][v], key)

\* C1: a get of a key returns the document of the last insert call for that
\* key, whatever was inserted under that key before and under other keys since.
C1_RoundTrip ==
    (out.op = "get" /\ out.key \in DOMAIN lastDoc)
        => (out.ok /\ out.val = lastDoc[out.key].doc)

\* a get of a key whose document was replaced, with another key in the store
C1_Witness ==
    /\ out.op = "get"
    /\ out.ok
    /\ out.key \in DOMAIN lastDoc
    /\ lastDoc[out.key].over
    /\ \E k \in DOMAIN lastDoc : k # out.key /\ lastDoc[k].doc # lastDoc[out.key].doc

\* C2: whenever no call is in progress, every index in the metadata holds every
\* document of the primary store that has the index's field, in the posting
\* list of that field's value.
C2_IndexesReflectInserts ==
    (status = "open" /\ ~txn) =>
        \A i \in 1..Len(meta) : \A key \in DOMAIN db :
            meta[i].field \in DOMAIN db[key]
                => Posted(meta[i].name, IndexKeyEnc(db[key][meta[i].field]), key)

\* C3: every key in a posting list of an index in the metadata is the key of a
\* document whose value of the index's field is that posting list's index key.
C3_PostingsHoldCurrentValues ==
    \A i \in 1..Len(meta) : \A v \in DOMAIN idx[meta[i].name] :
        \A j \in 1..Len(idx[meta[i].name][v]) :
            LET key == idx[meta[i].name][v][j]
            IN /\ key \in DOMAIN db
               /\ meta[i].field \in DOMAIN db[key]
               /\ IndexKeyEnc(db[key][meta[i].field]) = v

\* C4: no posting list of any index holds a primary key twice.
C4_PostingDedup ==
    \A n \in IndexNames : \A v \in DOMAIN idx[n] :
        \A i, j \in 1..Len(idx[n][v]) : idx[n][v][i] = idx[n][v][j] => i = j

\* the same document inserted again under its key, with an index that holds it
C4_Witness ==
    /\ out.op = "insert"
    /\ out.ok
    /\ out.again
    /\ ~lastDoc[out.key].over
    /\ \E n \in IndexNames : \E v \in DOMAIN idx[n] :
         InList(idx[n][v], KeyEnc(out.key)) /\ Len(idx[n][v]) > 1

\* C5: a createIndex call that repeats the call before it (same name, field and
\* type, the primary store untouched between the two) changes no posting list
\* and leaves the metadata and meta.json as the first call left them.
C5_IndexIdempotence ==
    [][(out'.op = "createIndex" /\ out'.again)
          => (idx' = idx /\ meta' = meta /\ metaFile' = metaFile)]_vars

\* the repeated call has returned, on an index that holds postings
C5_Witness ==
    /\ out.op = "createIndex"
    /\ out.again
    /\ out.ok
    /\ idx[out.name] # EmptyStore
    /\ Len(meta) = 1

\* C6: while a transaction's callback runs, the posting stores are as they were
\* when it started (so they hold no key it has brought in); once transaction has
\* returned successfully, every index in the metadata holds every document the
\* callback inserted.
C6_TransactionDeferral ==
    /\ txn => idx = snap.idx
    /\ (out.op = "transaction" /\ out.ok) =>
          \A k \in DOMAIN txnW : \A i \in 1..Len(meta) :
              meta[i].field \in DOMAIN txnW[k]
                  => Posted(meta[i].name, IndexKeyEnc(txnW[k][meta[i].field]), KeyEnc(k))

\* C7: when the callback of a transaction fails, transaction fails, the posting
\* stores, the metadata and meta.json are as they were before the transaction,
\* and every document the callback wrote is in the primary store.
C7_FailedTransaction ==
    (out.op = "transaction" /\ ~out.body) =>
        /\ ~out.ok
        /\ idx = snap.idx
        /\ meta = snap.meta
        /\ metaFile = snap.metaFile
        /\ \A k \in DOMAIN txnW :
              KeyEnc(k) \in DOMAIN db /\ db[KeyEnc(k)] = txnW[k]

\* a callback that failed after two inserts, one of them not in a registered
\* index that a rebuild would have put it in
C7_Witness ==
    /\ out.op = "transaction"
    /\ ~out.body
    /\ txnN = 2
    /\ \E i \in 1..Len(meta) : \E k \in DOMAIN txnW :
         /\ meta[i].type = "text"
         /\ meta[i].field \in DOMAIN txnW[k]
         /\ ~Posted(meta[i].name, IndexKeyEnc(txnW[k][meta[i].field]), KeyEnc(k))

\* the documents of a list of primary keys
DocsOf(keys) == [i \in 1..Len(keys) |-> db[keys[i]]]

\* the posting lists of the keys ks, one after the other
RECURSIVE ConcatPostings(_, _)
ConcatPostings(store, ks) ==
    IF ks = <<>> THEN <<>> ELSE store[Head(ks)] \o ConcatPostings(store, Tail(ks))

\* the posting lists of every index key that starts with p, in key order
PrefixPostings(store, p) ==
    ConcatPostings(store, SelectSeq(SortKeys(DOMAIN store), LAMBDA k : StartsWith(k, p)))

\* C8: a search with $startsWith p alone returns the documents of the posting
\* lists of exactly the index keys that start with p, in key order: the scan
\* that stops at the first key without the prefix misses none of them.
C8_PrefixSearchExact ==
    (out.op = "search" /\ out.query.eq.t = "undef" /\ out.query.sw.t = "str")
        => /\ out.ok
           /\ out.val = DocsOf(PrefixPostings(idx[out.index], out.query.sw.v))

\* titles "aa", "ab" and "b" are indexed, and $startsWith "ab" has returned one
\* document
C8_Witness ==
    /\ out.op = "search"
    /\ out.query = [eq |-> Undefined, sw |-> Str(<<97, 98>>)]
    /\ DOMAIN idx[out.index] = {<<97, 97>>, <<97, 98>>, <<98>>}
    /\ Len(out.val) = 1

\* C9: a search with $eq v alone returns the documents of the posting list
\* stored under v, and the empty sequence, not a failure, when the index has no
\* posting list under v.
C9_EqSearchNoMiss ==
    (out.op = "search" /\ out.query.eq.t = "str" /\ out.query.sw.t = "undef")
        => /\ out.ok
           /\ out.val = IF out.query.eq.v \in DOMAIN idx[out.index]
                        THEN DocsOf(idx[out.index][out.query.eq.v])
                        ELSE <<>>

\* a $eq search of an index that has postings, but none under the value
C9_Witness ==
    /\ out.op = "search"
    /\ out.query.eq.t = "str"
    /\ out.query.sw.t = "undef"
    /\ idx[out.index] # EmptyStore
    /\ out.query.eq.v \notin DOMAIN idx[out.index]
    /\ out.ok
    /\ out.val = <<>>

\* find yields each pair of the primary store that matches the query, and
\* nothing else
FindYieldsMatches ==
    {out.val[i] : i \in 1..Len(out.val)}
        = {<<k, db[k]>> : k \in {x \in DOMAIN db : Match(out.query, db[x]) = "true"}}

\* C10 as claimed: find yields exactly the matching pairs, each once, by
\* ascending primary key (the keys are the numbers the documents were inserted
\* under).
C10_FindAscendingKeys ==
    (out.op = "find" /\ out.ok)
        => /\ FindYieldsMatches
           /\ \A i, j \in 1..Len(out.val) :
                 i < j => DigitsValue(out.val[i][1]) < DigitsValue(out.val[j][1])

\* C10, amended: find yields exactly the matching pairs, each once, in the
\* primary store's key order, which is the byte order of the keys' strings.
C10_FindStoreOrder ==
    (out.op = "find" /\ out.ok)
        => /\ FindYieldsMatches
           /\ \A i, j \in 1..Len(out.val) :
                 i < j => LexLess(out.val[i][1], out.val[j][1])

\* three documents, the $or query matches those of keys 10 and 2, which find
\* has yielded in that order
C10_Witness ==
    /\ out.op = "find"
    /\ out.query = QueryOr
    /\ out.ok
    /\ Cardinality(DOMAIN db) = 3
    /\ Len(out.val) = 2
    /\ out.val[1][1] = KeyEnc(10)
    /\ out.val[2][1] = KeyEnc(2)

\* a query whose every $or value is an array of such queries and whose every
\* other value is an operator object
RECURSIVE WellFormed(_)
WellFormed(q) ==
    \A i \in 1..Len(q) :
        IF q[i].key = "$or"
        THEN /\ q[i].val.kind = "array"
             /\ \A j \in 1..Len(q[i].val.qs) : WellFormed(q[i].val.qs[j])
        ELSE q[i].val.kind = "item"

\* the field of predicate e is absent from d, or its operator is true of it
PredicateHolds(e, d) == e.key \notin DOMAIN d \/ Evaluate(e.val, d[e.key])

\* every field predicate of q holds and every $or of q has a sub-query of
\* which the same is true
RECURSIVE AllHold(_, _)
AllHold(q, d) ==
    \A i \in 1..Len(q) :
        IF q[i].key = "$or"
        THEN \E j \in 1..Len(q[i].val.qs) : AllHold(q[i].val.qs[j], d)
        ELSE PredicateHolds(q[i], d)

\* the place of the first $or among the properties of q, Len(q) + 1 without one
FirstOr(q) ==
    IF \E i \in 1..Len(q) : q[i].key = "$or"
    THEN CHOOSE i \in 1..Len(q) :
            q[i].key = "$or" /\ \A j \in 1..(i - 1) : q[j].key # "$or"
    ELSE Len(q) + 1

\* the same, of the properties up to the first $or only
RECURSIVE HoldUpToOr(_, _)
HoldUpToOr(q, d) ==
    \A i \in 1..Len(q) :
        i <= FirstOr(q) =>
            IF q[i].key = "$or"
            THEN \E j \in 1..Len(q[i].val.qs) : HoldUpToOr(q[i].val.qs[j], d)
            ELSE PredicateHolds(q[i], d)

\* C11 as claimed: on a well-formed query match returns true exactly when
\* every field predicate of the query is absent from the document or true
\* of it and every $or of the query has a matching sub-query.
C11_MatchIffAllHold ==
    (out.op = "match" /\ WellFormed(out.query))
        => /\ out.res \in {"true", "false"}
           /\ (out.res = "true") <=> AllHold(out.query, out.doc)

\* C11, amended: on a well-formed query match returns true exactly when every
\* field predicate before the first $or is absent from the document or true of
\* it and the first $or, if there is one, has a matching sub-query; the
\* properties after the first $or do not count.  The empty query matches.
C11_MatchUpToFirstOr ==
    (out.op = "match" /\ WellFormed(out.query))
        => /\ out.res \in {"true", "false"}
           /\ (out.res = "true") <=> HoldUpToOr(out.query, out.doc)
           /\ (out.query = <<>> => out.res = "true")

\* a well-formed query of a field predicate and a $or has matched a document
\* that lacks the predicate's field
C11_Witness ==
    /\ out.op = "match"
    /\ Len(out.query) = 2
    /\ WellFormed(out.query)
    /\ out.query[1].key = "type"
    /\ out.query[2].key = "$or"
    /\ "type" \notin DOMAIN out.doc
    /\ out.res = "true"

\* a $or whose value is not an array, or a field key whose value is one
Malformed(q) ==
    \E i \in 1..Len(q) : (q[i].key = "$or") # (q[i].val.kind = "array")

\* C13: match raises on every query that has a $or whose value is not a
\* sequence or a field key whose value is one, whatever its other keys and
\* the document.
C13_MalformedQueryRaises ==
    (out.op = "match" /\ Malformed(out.query)) => out.res = "throw"

\* C16: with a $or among the properties of the query, match returns what it
\* returns on the properties up to that $or, so the ones after it change
\* nothing; a failing field predicate before the $or makes it false whatever
\* the $or holds; and when the ones before all pass, it is true exactly if
\* some sub-query of the $or matches.
C16_OrEarlyReturn ==
    (out.op = "match" /\ FirstOr(out.query) <= Len(out.query))
        => LET q == out.query
               i == FirstOr(q)
               before == Match(SubSeq(q, 1, i - 1), out.doc)
           IN /\ out.res = Match(SubSeq(q, 1, i), out.doc)
              /\ before = "false" => out.res = "false"
              /\ (before = "true" /\ q[i].val.kind = "array")
                    => ((out.res = "true") <=>
                           \E j \in 1..Len(q[i].val.qs) : Match(q[i].val.qs[j], out.doc) = "true")

\* a $or has matched and the field predicate after it is false of the
\* document: match has returned true
C16_Witness ==
    /\ out.op = "match"
    /\ Len(out.query) = 2
    /\ out.query[1].key = "$or"
    /\ out.query[2].val.kind = "item"
    /\ out.query[2].key \in DOMAIN out.doc
    /\ ~Evaluate(out.query[2].val, out.doc[out.query[2].key])
    /\ out.res = "true"

\* C12: a createIndex call whose kind is neither text nor number fails, and
\* leaves the metadata and every posting store as they were.
C12_InvalidKindRejected ==
    [][(out'.op = "createIndex" /\ out'.type \notin {"text", "number"})
          => (~out'.ok /\ meta' = meta /\ metaFile' = metaFile /\ idx' = idx)]_vars

\* list s is the beginning of list t
IsPrefix(s, t) == Len(s) <= Len(t) /\ SubSeq(t, 1, Len(s)) = s

\* C18: every step keeps every posting list as the beginning of what it
\* becomes: keys are added at the end, and none is moved or removed.
C18_PostingsAppendOnly ==
    [][\A n \in IndexNames : \A v \in DOMAIN idx[n] :
          v \in DOMAIN idx'[n] /\ IsPrefix(idx[n][v], idx'[n][v])]_vars

\* a posting list of two keys, the second of which was inserted after the
\* index had posted the first
C18_Witness ==
    /\ out.op = "insert"
    /\ out.ok
    /\ \E n \in IndexNames : \E v \in DOMAIN idx[n] :
          /\ Len(idx[n][v]) = 2
          /\ idx[n][v][2] = KeyEnc(out.key)
          /\ ~out.again

\* C14: a get of a key that no insert call was ever given fails, and the
\* primary store, the posting stores and the metadata stay as they were.
C14_GetNotFound ==
    [][(out'.op = "get" /\ out'.key \notin DOMAIN lastDoc')
          => /\ ~out'.ok
             /\ db' = db
             /\ idx' = idx
             /\ meta' = meta
             /\ metaFile' = metaFile]_vars

\* a get of a key never inserted has failed, in a database that holds a
\* document under another key and an index with a posting
C14_Witness ==
    /\ out.op = "get"
    /\ ~out.ok
    /\ out.key \notin DOMAIN lastDoc
    /\ db # EmptyStore
    /\ \E n \in IndexNames : idx[n] # EmptyStore

\* the definition recorded under index name n in metadata m
DefinitionOf(m, n) == {[field |-> m[i].field, type |-> m[i].type] : i \in {j \in 1..Len(m) : m[j].name = n}}

\* C15: once the database has been opened, meta.json holds the in-memory
\* index definitions in every state between calls; and a step that changes
\* the definitions is a createIndex call that succeeded, after which the
\* called name has the one definition {field, kind} of the call and every
\* other name the definition it had.
C15_MetadataDurability ==
    [][/\ status' # "new" => metaFile' = meta'
       /\ meta' # meta
            => /\ out'.op = "createIndex"
               /\ out'.ok
               /\ DefinitionOf(meta', out'.name) = {[field |-> out'.field, type |-> out'.type]}
               /\ Cardinality({i \in 1..Len(meta') : meta'[i].name = out'.name}) = 1
               /\ \A n \in IndexNames \ {out'.name} :
                     DefinitionOf(meta', n) = DefinitionOf(meta, n)]_vars

\* index ix1 was created on title, then created again on type as a number
\* index, and the database was closed: meta.json holds the second definition
C15_Witness ==
    /\ status = "closed"
    /\ <<97, 98>> \in DOMAIN idx["ix1"]
    /\ DefinitionOf(meta, "ix1") = {[field |-> "type", type |-> "number"]}
    /\ metaFile = meta

\* the posting list stored under index key v, empty without one
PostingOf(store, v) == IF v \in DOMAIN store THEN store[v] ELSE <<>>

\* C17: a search with both $eq v and $startsWith p returns the documents of
\* the posting list of v followed by those of the posting lists of the index
\* keys that start with p, in key order, and removes no duplicate.
C17_EqThenPrefixConcat ==
    (out.op = "search" /\ out.query.eq.t = "str" /\ out.query.sw.t = "str")
        => /\ out.ok
           /\ out.val = DocsOf(PostingOf(idx[out.index], out.query.eq.v)
                               \o PrefixPostings(idx[out.index], out.query.sw.v))

\* $eq "aa" with $startsWith "a" on an index of the titles "aa" and "ab": the
\* document titled "aa" is returned first and second, the one titled "ab" third
C17_Witness ==
    /\ out.op = "search"
    /\ out.query = [eq |-> Str(<<97, 97>>), sw |-> Str(<<97>>)]
    /\ Len(out.val) = 3
    /\ out.val[1] = out.val[2]
    /\ out.val[1].title = Str(<<97, 97>>)
    /\ out.val[3].title = Str(<<97, 98>>)

\* C19: while a transaction callback runs, a get of a key it has written
\* returns the document it wrote, and a $eq search returns the documents of
\* the posting list the index had when the transaction started: readers see
\* the new documents and the old indexes.
C19_NoIsolation ==
    txn => /\ (out.op = "get" /\ out.key \in DOMAIN txnW)
                => (out.ok /\ out.val = txnW[out.key])
           /\ (out.op = "search" /\ out.query.sw.t = "undef")
                => out.val = DocsOf(PostingOf(snap.idx[out.index], out.query.eq.v))

\* the callback has inserted a document under a key and has not returned:
\* the primary store holds the document under that key, which is what get
\* returns, and a $eq search of the index on title for the document's title
\* has returned without it
C19_Witness ==
    /\ txn
    /\ out.op = "search"
    /\ out.index = "ix1"
    /\ DefinitionOf(meta, "ix1") = {[field |-> "title", type |-> "text"]}
    /\ out.query.sw.t = "undef"
    /\ \E k \in DOMAIN txnW :
          /\ db[KeyEnc(k)] = txnW[k]
          /\ out.query.eq = txnW[k].title
          /\ \A i \in 1..Len(out.val) : out.val[i] # txnW[k]

\* C20: a get, find or search call, whatever it returns, leaves the primary
\* store, every posting store and the metadata as they were.
C20_ReadsArePure ==
    [][out'.op \in {"get", "find", "search"}
          => (db' = db /\ idx' = idx /\ meta' = meta /\ metaFile' = metaFile)]_vars

\* a search of an index name that was never created has returned nothing, in
\* a database that holds documents and one index, which is the only one
\* registered and has postings
C20_Witness ==
    /\ out.op = "search"
    /\ out.index = "ix2"
    /\ out.ok
    /\ out.val = <<>>
    /\ db # EmptyStore
    /\ idx["ix1"] # EmptyStore
    /\ idx["ix2"] = EmptyStore
    /\ MetaNames(meta) = <<"ix1">>

====
